---- MODULE Spec2Model ----
(***************************************************************************)
(* Model of the typenum-uuid procedural macros (src/src/lib.rs):           *)
(*   uuid_new_v4!( [| path] )   and   uuid!( literal [| path] ).           *)
(*                                                                         *)
(* Representation.                                                         *)
(*  - An unsigned integer of the identifier's width is the sequence of its *)
(*    binary digits, least significant first (index 1 is bit 0), so that   *)
(*    x >> 1, x & 1 and x == 0 are computed on the digits as the machine   *)
(*    computes them.                                                       *)
(*  - A TokenTree is a record, a TokenStream a sequence of TokenTrees; the *)
(*    text of a token is a sequence of one-character strings.              *)
(*  - Width.  The program's identifier has 32 hex digits (u128) in groups  *)
(*    8-4-4-4-12.  The encoder recurses once per binary digit, so TLC      *)
(*    explores a narrower identifier: HexLen hex digits (4 * HexLen bits)  *)
(*    in groups 2-1-1-1-(HexLen - 5), with the version digit leading the   *)
(*    third group and the variant digit leading the fourth, as in the      *)
(*    program's format.  Every statement below that mentions 128 is        *)
(*    checked with BITS in its place.                                      *)
(***************************************************************************)
EXTENDS Naturals, Sequences, FiniteSets

\* hex digits of an identifier's text (the program: 32)
HexLen == 8

\* longest raw argument list enumerated token by token
MaxArgs == 2

\* invocations per behaviour
MaxCalls == 3

\* width of the integer handed to the encoder (the program: u128)
BITS == 4 * HexLen

----------------------------------------------------------------------------
(* unsigned arithmetic of the encoder, on BITS binary digits *)

Zero == [i \in 1..BITS |-> 0]

\* x == 0
IsZero(x) == \A i \in 1..BITS : x[i] = 0

\* x >> 1
Shr1(x) == Tail(x) \o << 0 >>

\* x & 1
And1(x) == x[1]

----------------------------------------------------------------------------
(* proc_macro token trees *)

Punct(ch, spacing) == [kind |-> "Punct", text |-> << ch >>, spacing |-> spacing]

Ident(name) == [kind |-> "Ident", text |-> name, spacing |-> "None"]

Literal(text) == [kind |-> "Literal", text |-> text, spacing |-> "None"]

\* a delimited group is one token tree; its inner stream is not top level
Group(stream) == [kind |-> "Group", text |-> << "(" >>, spacing |-> "None",
                  stream |-> stream]

\* (variant: the path is left out)
prefixed_ident_unqualified(prefix, id) ==
    << Punct(":", "Joint"), Punct(":", "Alone"), Ident(id) >>

\* Appends an identifier to a type path: $prefix :: $id
prefixed_ident(prefix, id) ==
    prefix \o << Punct(":", "Joint"), Punct(":", "Alone"), Ident(id) >>

----------------------------------------------------------------------------
(* enum TypenumUint { Lsb(Box<TypenumUint>, bool), Term } *)

Term == [tag |-> "Term"]

Lsb(high, bit) == [tag |-> "Lsb", high |-> high, bit |-> bit]

\* (variant: the bit is stored inverted)
RECURSIVE from_inverted(_)
from_inverted(x) ==
    IF IsZero(x) THEN Term
    ELSE Lsb(from_inverted(Shr1(x)), And1(x) = 0)

\* (variant: the recursion stops one digit early)
RECURSIVE from_stop_early(_)
from_stop_early(x) ==
    IF IsZero(Shr1(x)) THEN Term
    ELSE Lsb(from_stop_early(Shr1(x)), And1(x) # 0)

\* impl From<u128> for TypenumUint
RECURSIVE from(_)
from(x) ==
    IF IsZero(x) THEN Term
    ELSE Lsb(from(Shr1(x)), And1(x) # 0)

\* (variant: both arms of the bit name are B1)
RECURSIVE write_ts_b1(_, _, _)
write_ts_b1(self, prefix, ts) ==
    IF self.tag = "Term"
    THEN ts \o prefixed_ident(prefix, << "U", "T", "e", "r", "m" >>)
    ELSE write_ts_b1(self.high, prefix,
                     ts \o prefixed_ident(prefix, << "U", "I", "n", "t" >>)
                        \o << Punct("<", "Alone") >>)
         \o ( << Punct(",", "Alone") >>
              \o prefixed_ident(prefix, << "B", "1" >>)
              \o << Punct(">", "Alone") >> )

\* TypenumUint::write_ts: appends self to the stream ts; the value is the
\* stream after the call
RECURSIVE write_ts(_, _, _)
write_ts(self, prefix, ts) ==
    IF self.tag = "Term"
    THEN ts \o prefixed_ident(prefix, << "U", "T", "e", "r", "m" >>)
    ELSE write_ts(self.high, prefix,
                  ts \o prefixed_ident(prefix, << "U", "I", "n", "t" >>)
                     \o << Punct("<", "Alone") >>)
         \o ( << Punct(",", "Alone") >>
              \o prefixed_ident(prefix,
                     IF self.bit THEN << "B", "1" >> ELSE << "B", "0" >>)
              \o << Punct(">", "Alone") >> )

\* Convert a Uuid object into a TokenStream
uuid_to_tokenstream(uuid, prefix) ==
    write_ts(from(uuid), prefix, << >>)


----------------------------------------------------------------------------
(* the uuid crate, at the boundary: Uuid::parse_str, Uuid::as_u128 and     *)
(* Uuid::new_v4.  A Uuid is represented by its as_u128() value.            *)

LowerHex == << "0", "1", "2", "3", "4", "5", "6", "7", "8", "9",
               "a", "b", "c", "d", "e", "f" >>

UpperHex == << "0", "1", "2", "3", "4", "5", "6", "7", "8", "9",
               "A", "B", "C", "D", "E", "F" >>

IsHex(c) == \E i \in 1..16 : LowerHex[i] = c \/ UpperHex[i] = c

HexVal(c) == (CHOOSE i \in 1..16 : LowerHex[i] = c \/ UpperHex[i] = c) - 1

\* bit k (0..3) of a hex digit's value
DigitBit(v, k) ==
    IF k = 0 THEN v % 2
    ELSE IF k = 1 THEN (v \div 2) % 2
    ELSE IF k = 2 THEN (v \div 4) % 2
    ELSE (v \div 8) % 2

\* the hex digit (1 = most significant) that holds bit index i (1 = least)
DigitOf(i) == HexLen - ((i - 1) \div 4)

\* big-endian value of HexLen hex digits, as binary digits
FromHex(ds) ==
    [i \in 1..BITS |-> DigitBit(HexVal(ds[DigitOf(i)]), (i - 1) % 4)]

\* lengths of the five hex groups of the hyphenated form (8-4-4-4-12)
GroupLens == << 2, 1, 1, 1, HexLen - 5 >>

\* positions of the four hyphens in the hyphenated form
HyphenAt ==
    { GroupLens[1] + 1,
      GroupLens[1] + GroupLens[2] + 2,
      GroupLens[1] + GroupLens[2] + GroupLens[3] + 3,
      GroupLens[1] + GroupLens[2] + GroupLens[3] + GroupLens[4] + 4 }

SimpleLen == HexLen

HyphenatedLen == HexLen + Cardinality(HyphenAt)

UrnPrefix == << "u", "r", "n", ":", "u", "u", "i", "d", ":" >>

UrnLen == Len(UrnPrefix) + HyphenatedLen

Ok(v) == [ok |-> TRUE, val |-> v]

Err == [ok |-> FALSE, val |-> Zero]

\* Uuid::parse_str followed by as_u128: the simple form, the hyphenated
\* form, and the hyphenated form behind "urn:uuid:"; anything else is Err
parse_str(input) ==
    LET s == IF Len(input) = UrnLen
                /\ SubSeq(input, 1, Len(UrnPrefix)) = UrnPrefix
             THEN SubSeq(input, Len(UrnPrefix) + 1, Len(input))
             ELSE input
    IN  IF Len(s) = SimpleLen /\ \A i \in 1..Len(s) : IsHex(s[i])
        THEN Ok(FromHex(s))
        ELSE IF /\ Len(s) = HyphenatedLen
                /\ \A i \in 1..Len(s) :
                      IF i \in HyphenAt THEN s[i] = "-" ELSE IsHex(s[i])
        THEN Ok(FromHex(SelectSeq(s, IsHex)))
        ELSE Err

\* the digit that carries the version, and the one that carries the variant
VersionDigit == GroupLens[1] + GroupLens[2] + 1

VariantDigit == GroupLens[1] + GroupLens[2] + GroupLens[3] + 1

\* Uuid::new_v4: random bits r with the version digit set to 4 and the two
\* top bits of the variant digit set to 10
new_v4(r) ==
    [i \in 1..BITS |->
        IF DigitOf(i) = VersionDigit
        THEN DigitBit(4, (i - 1) % 4)
        ELSE IF DigitOf(i) = VariantDigit /\ (i - 1) % 4 = 3 THEN 1
        ELSE IF DigitOf(i) = VariantDigit /\ (i - 1) % 4 = 2 THEN 0
        ELSE r[i]]

----------------------------------------------------------------------------
(* TokenStream::to_string and the whitespace filter *)

\* the compiler chooses the spacing between tokens: sep is what it puts
\* after each token tree
RECURSIVE to_string(_, _)
to_string(ts, sep) ==
    IF ts = << >> THEN << >>
    ELSE LET tt == Head(ts)
         IN  (IF tt.kind = "Group"
              THEN << "(" >> \o sep \o to_string(tt.stream, sep) \o << ")" >>
              ELSE tt.text)
             \o sep \o to_string(Tail(ts), sep)

is_whitespace(c) == c \in { " ", "\t", "\n" }

NotWhitespace(c) == ~ is_whitespace(c)

----------------------------------------------------------------------------
(* Separate local from global macro arguments *)

IsBar(tt) == tt.kind = "Punct" /\ tt.text = << "|" >>

NotBar(tt) == ~ IsBar(tt)

\* Iterator::take_while on a by-reference iterator: yields the items before
\* the first one the predicate rejects, and consumes that one as well.
\* `taken` is what it yields, `rest` what the iterator still holds.
RECURSIVE take_while(_, _)
take_while(iter, taken) ==
    IF iter = << >> THEN [taken |-> taken, rest |-> << >>]
    ELSE IF NotBar(Head(iter))
         THEN take_while(Tail(iter), Append(taken, Head(iter)))
         ELSE [taken |-> taken, rest |-> Tail(iter)]

\* the default value of ::typenum
DefaultPrefix ==
    << Punct(":", "Joint"), Punct(":", "Alone"),
       Ident(<< "t", "y", "p", "e", "n", "u", "m" >>) >>

\* (variant: the separator is left at the head of the namespace)
split_off_prefix_keep_bar(args) ==
    LET tw == take_while(args, << >>)
        local == tw.taken
        prefix == SubSeq(args, Len(local) + 1, Len(args))
    IN  [local |-> local,
         prefix |-> IF prefix = << >> THEN DefaultPrefix ELSE prefix]

split_off_prefix(args) ==
    LET tw == take_while(args, << >>)
        local == tw.taken
        prefix == tw.rest
    IN  [local |-> local,
         prefix |-> IF prefix = << >> THEN DefaultPrefix ELSE prefix]

----------------------------------------------------------------------------
(* the two macros, as functions of their input and of what the random     *)
(* source returns                                                          *)

Panic(why, sp) ==
    [outcome |-> why, local |-> sp.local, prefix |-> sp.prefix,
     drew |-> FALSE, value |-> Zero, out |-> << >>]

Expansion(sp, drew, uuid) ==
    [outcome |-> "ok", local |-> sp.local, prefix |-> sp.prefix,
     drew |-> drew, value |-> uuid,
     out |-> uuid_to_tokenstream(uuid, sp.prefix)]

\* (variant: the argument check is missing)
uuid_new_v4_no_assert(args, fresh) ==
    Expansion(split_off_prefix(args), TRUE, fresh)

\* (variant: the nil Uuid instead of a fresh one)
uuid_new_v4_nil(args, fresh) ==
    LET sp == split_off_prefix(args)
    IN  IF sp.local # << >>
        THEN Panic("v4 UUIDs take no arguments", sp)
        ELSE Expansion(sp, TRUE, Zero)

\* (variant: the Uuid is drawn before the argument check)
uuid_new_v4_draw_first(args, fresh) ==
    LET sp == split_off_prefix(args)
    IN  IF sp.local # << >>
        THEN [Panic("v4 UUIDs take no arguments", sp) EXCEPT !.drew = TRUE]
        ELSE Expansion(sp, TRUE, fresh)

\* pub fn uuid_new_v4(args: TokenStream) -> TokenStream; fresh is the Uuid
\* that Uuid::new_v4() returns if it is called
uuid_new_v4(args, fresh) ==
    LET sp == split_off_prefix(args)
    IN  IF sp.local # << >>
        THEN Panic("v4 UUIDs take no arguments", sp)
        ELSE Expansion(sp, TRUE, fresh)

\* (variant: the white space filter is missing)
uuid_no_strip(args, sep) ==
    LET sp == split_off_prefix(args)
        parsed == parse_str(to_string(sp.local, sep))
    IN  IF parsed.ok
        THEN Expansion(sp, FALSE, parsed.val)
        ELSE Panic("called Result::unwrap() on an Err value", sp)

\* (variant: unwrap_or_default instead of unwrap)
uuid_unwrap_or_default(args, sep) ==
    LET sp == split_off_prefix(args)
        str == SelectSeq(to_string(sp.local, sep), NotWhitespace)
        parsed == parse_str(str)
    IN  Expansion(sp, FALSE, parsed.val)

\* pub fn uuid(args: TokenStream) -> TokenStream; sep is the spacing that
\* to_string puts between tokens
uuid(args, sep) ==
    LET sp == split_off_prefix(args)
        str == SelectSeq(to_string(sp.local, sep), NotWhitespace)
        parsed == parse_str(str)
    IN  IF parsed.ok
        THEN Expansion(sp, FALSE, parsed.val)
        ELSE Panic("called Result::unwrap() on an Err value", sp)

----------------------------------------------------------------------------
(* inputs: the invocations the model draws *)

OneBit(k) == [i \in 1..BITS |-> IF i = k + 1 THEN 1 ELSE 0]

Ones == [i \in 1..BITS |-> 1]

\* a65ff38d-b5b2-48d0-b03a-bdf468523d2e, digit by digit
SampleNibbles ==
    << 10, 6, 5, 15, 15, 3, 8, 13, 11, 5, 11, 2, 4, 8, 13, 0,
       11, 0, 3, 10, 11, 13, 15, 4, 6, 8, 5, 2, 3, 13, 2, 14 >>

\* the identifier whose hex digits are the first HexLen digits of the sample
SampleId == [i \in 1..BITS |-> DigitBit(SampleNibbles[DigitOf(i)], (i - 1) % 4)]

\* the value of hex digit d (1 = most significant) of identifier u
NibbleOf(u, d) ==
    u[4 * (HexLen - d) + 1] + 2 * u[4 * (HexLen - d) + 2]
    + 4 * u[4 * (HexLen - d) + 3] + 8 * u[4 * (HexLen - d) + 4]

\* the simple (unhyphenated) lower-case form of identifier u
SimpleText(u) == [d \in 1..HexLen |-> LowerHex[NibbleOf(u, d) + 1]]

\* the hyphenated form of identifier u
HyphenatedText(u) ==
    [p \in 1..HyphenatedLen |->
        IF p \in HyphenAt THEN "-"
        ELSE SimpleText(u)[p - Cardinality({h \in HyphenAt : h < p})]]

Forms == { "simple", "hyphenated", "urn" }

Render(u, form) ==
    IF form = "simple" THEN SimpleText(u)
    ELSE IF form = "hyphenated" THEN HyphenatedText(u)
    ELSE UrnPrefix \o HyphenatedText(u)

\* source text of a namespace override, as written after the literal
BarText == << "|" >>

FakeText == << "|", "f", "a", "k", "e", "_", "t", "n" >>

CrateFakeText ==
    << "|", "c", "r", "a", "t", "e", ":", ":", "f", "a", "k", "e", "_", "t", "n" >>

IsPunctChar(c) == c \in { "-", ":", "|" }

IsDecimal(c) == \E i \in 1..10 : LowerHex[i] = c

\* the last character of the token that starts at character i: a
\* punctuation character is a token of its own; a word runs up to the next
\* punctuation character, the white space the caller put before character
\* `cut` (cut = 0: no white space), or the end of the text
TokenEnd(text, cut, i) ==
    IF IsPunctChar(text[i]) THEN i
    ELSE CHOOSE j \in i..Len(text) :
            /\ \A k \in (i + 1)..j : ~ IsPunctChar(text[k]) /\ k # cut
            /\ (j = Len(text) \/ IsPunctChar(text[j + 1]) \/ j + 1 = cut)

\* the token trees the macro receives for the source text from character i on
RECURSIVE LexFrom(_, _, _)
LexFrom(text, cut, i) ==
    IF i > Len(text) THEN << >>
    ELSE << IF IsPunctChar(text[i])
            THEN Punct(text[i],
                       IF i < Len(text) /\ IsPunctChar(text[i + 1]) /\ i + 1 # cut
                       THEN "Joint" ELSE "Alone")
            ELSE IF IsDecimal(text[i])
            THEN Literal(SubSeq(text, i, TokenEnd(text, cut, i)))
            ELSE Ident(SubSeq(text, i, TokenEnd(text, cut, i))) >>
         \o LexFrom(text, cut, TokenEnd(text, cut, i) + 1)

Lex(text, cut) == LexFrom(text, cut, 1)

\* identifiers written as literals
LitIds == { Zero, OneBit(0), SampleId, Ones }

None == [wf |-> FALSE, id |-> Zero, form |-> "none"]

Denotes(u, form) == [wf |-> TRUE, id |-> u, form |-> form]

\* well-formed literal invocations: every identifier in every form, as
\* written or with white space before any one character, or with a
\* namespace override
GoodLiterals ==
    { [text |-> Render(u, f), cut |-> c, denoted |-> Denotes(u, f)] :
        u \in LitIds, f \in Forms, c \in {0} \cup 2..UrnLen }
    \cup
    { [text |-> Render(u, f) \o ns, cut |-> 0, denoted |-> Denotes(u, f)] :
        u \in LitIds, f \in Forms, ns \in { BarText, CrateFakeText } }

\* text s with the characters at p and p + 1 exchanged
Swap(s, p) ==
    [i \in 1..Len(s) |-> IF i = p THEN s[p + 1] ELSE IF i = p + 1 THEN s[p] ELSE s[i]]

\* text s with character p replaced by c
Replace(s, p, c) == [i \in 1..Len(s) |-> IF i = p THEN c ELSE s[i]]

\* literals the parser must refuse
BadTexts ==
    { << >>,
      SubSeq(SimpleText(SampleId), 1, HexLen - 1),
      SimpleText(SampleId) \o << "0" >>,
      Replace(SimpleText(SampleId), HexLen, "g"),
      Replace(HyphenatedText(Zero), HyphenatedLen, "x"),
      Swap(HyphenatedText(SampleId), GroupLens[1] + 1),
      Swap(HyphenatedText(Ones), GroupLens[1] + GroupLens[2] + 1),
      Replace(HyphenatedText(SampleId), GroupLens[1] + 1, ":"),
      UrnPrefix \o SimpleText(SampleId),
      UrnPrefix,
      Replace(UrnPrefix, 1, "U") \o HyphenatedText(SampleId),
      SubSeq(UrnPrefix, 5, 9) \o HyphenatedText(SampleId) }

BadLiterals ==
    { [text |-> t \o ns, cut |-> 0, denoted |-> None] :
        t \in BadTexts, ns \in { << >>, FakeText } }

LiteralInputs ==
    { i \in GoodLiterals \cup BadLiterals : i.cut <= Len(i.text) }

\* what to_string may put after a token
Separators == { << >>, << " " >> }

\* token trees of raw argument lists
ArgAlphabet ==
    { Punct("|", "Alone"),
      Ident(<< "t", "n" >>),
      Punct(":", "Alone"),
      Group(<< Punct("|", "Alone") >>) }

\* every token sequence over ArgAlphabet of length at most MaxArgs, and the
\* overrides of the tests
FreshInputs ==
    UNION { [1..n -> ArgAlphabet] : n \in 0..MaxArgs }
    \cup { Lex(CrateFakeText, 0), Lex(FakeText \o FakeText, 0),
           Lex(<< "x" >> \o CrateFakeText, 0) }

\* what the random number generator may return
RandomBits == { Zero, Ones, SampleId }

\* the invocations drawn after the first one of a behaviour
LaterFreshInputs ==
    { << >>, Lex(FakeText, 0), << Ident(<< "t", "n" >>) >> }

LaterLiteralInputs ==
    { i \in LiteralInputs :
        /\ i.cut = 0
        /\ i.text \in { HyphenatedText(SampleId), SimpleText(Zero) \o BarText,
                         SubSeq(SimpleText(SampleId), 1, HexLen - 1) } }

----------------------------------------------------------------------------
(* state *)

VARIABLES
    macro,      \* the macro invoked last: "none", "uuid_new_v4" or "uuid"
    args,       \* the token stream it was handed
    res,        \* how it ended: outcome, the two segments, the value, the output
    rng,        \* the random source: draws made so far, the last Uuid returned
    calls,      \* invocations so far
    freshOk,    \* fresh-value invocations that succeeded so far
    denoted,    \* the identifier and form the literal was written from, if any
    pure        \* the encoder and emitter applied to drawn values (SpecPure)

vars == << macro, args, res, rng, calls, freshOk, denoted, pure >>

NoResult ==
    [outcome |-> "none", local |-> << >>, prefix |-> << >>,
     drew |-> FALSE, value |-> Zero, out |-> << >>]

Idle ==
    [pc |-> "idle", x |-> Zero, y |-> Zero, ns |-> << >>,
     tx |-> Term, ty |-> Term, ox |-> << >>, oy |-> << >>]

Init ==
    /\ macro = "none"
    /\ args = << >>
    /\ res = NoResult
    /\ rng = [draws |-> 0, last |-> Zero]
    /\ calls = 0
    /\ freshOk = 0
    /\ denoted = None
    /\ pure = Idle

\* one expansion of uuid_new_v4!(a); r is what the generator would return
InvokeFresh(a, r) ==
    /\ calls < MaxCalls
    /\ \E result \in { uuid_new_v4(a, new_v4(r)) } :
          /\ macro' = "uuid_new_v4"
          /\ args' = a
          /\ res' = result
          /\ rng' = IF result.drew
                    THEN [draws |-> rng.draws + 1, last |-> new_v4(r)]
                    ELSE rng
          /\ calls' = calls + 1
          /\ freshOk' = IF result.outcome = "ok" THEN freshOk + 1 ELSE freshOk
          /\ denoted' = None
          /\ UNCHANGED pure

\* one expansion of uuid!(...) on the source text of input i
InvokeLiteral(i, sep) ==
    /\ calls < MaxCalls
    /\ \E a \in { Lex(i.text, i.cut) } :
       \E result \in { uuid(a, sep) } :
          /\ macro' = "uuid"
          /\ args' = a
          /\ res' = result
          /\ rng' = IF result.drew
                    THEN [draws |-> rng.draws + 1, last |-> result.value]
                    ELSE rng
          /\ calls' = calls + 1
          /\ denoted' = i.denoted
          /\ UNCHANGED << freshOk, pure >>

\* the first invocation of a behaviour draws from all the inputs, the
\* following ones from the later inputs
Next ==
    \/ calls = 0 /\ \E a \in FreshInputs, r \in RandomBits : InvokeFresh(a, r)
    \/ calls = 0 /\ \E i \in LiteralInputs, sep \in Separators : InvokeLiteral(i, sep)
    \/ calls > 0 /\ \E a \in LaterFreshInputs, r \in RandomBits : InvokeFresh(a, r)
    \/ calls > 0 /\ \E i \in LaterLiteralInputs, sep \in Separators : InvokeLiteral(i, sep)

Spec == Init /\ [][Next]_vars

----------------------------------------------------------------------------
(* the encoder and the emitter as pure functions: SpecPure draws two        *)
(* values and a namespace path and applies them                             *)

\* low-order window of the values drawn
WindowBits == 3

\* the binary digits p placed s digits above the least significant one
Place(p, s) ==
    [i \in 1..BITS |-> IF i > s /\ i <= s + WindowBits THEN p[i - s] ELSE 0]

Patterns == [1..WindowBits -> {0, 1}]

\* every value whose ones lie within WindowBits adjacent digits, and two
\* dense ones
EncValues ==
    { Place(p, s) : p \in Patterns, s \in 0..(BITS - WindowBits) }
    \cup { Ones, SampleId }

\* the values each of them is compared with
PairValues ==
    { Place(p, 0) : p \in Patterns } \cup { Ones, OneBit(BITS - 1) }

FakePrefix == << Ident(<< "f", "a", "k", "e", "_", "t", "n" >>) >>

CrateFakePrefix == Lex(Tail(CrateFakeText), 0)

NsPaths == { DefaultPrefix, FakePrefix }

InitPure ==
    /\ macro = "none"
    /\ args = << >>
    /\ res = NoResult
    /\ rng = [draws |-> 0, last |-> Zero]
    /\ calls = 0
    /\ freshOk = 0
    /\ denoted = None
    /\ \E x \in EncValues, y \in PairValues, ns \in NsPaths :
          pure = [pc |-> "input", x |-> x, y |-> y, ns |-> ns,
                  tx |-> Term, ty |-> Term, ox |-> << >>, oy |-> << >>]

\* TypenumUint::from and uuid_to_tokenstream applied to both values
Convert ==
    /\ pure.pc = "input"
    /\ pure' = [pure EXCEPT !.pc = "done",
                            !.tx = from(pure.x),
                            !.ty = from(pure.y),
                            !.ox = uuid_to_tokenstream(pure.x, pure.ns),
                            !.oy = uuid_to_tokenstream(pure.y, pure.ns)]
    /\ UNCHANGED << macro, args, res, rng, calls, freshOk, denoted >>

NextPure == Convert

SpecPure == InitPure /\ [][NextPure]_vars

----------------------------------------------------------------------------
(* what the statements below are phrased in *)

\* decode(Term) = 0; decode(Lsb(h, b)) = 2 * decode(h) + (b ? 1 : 0), on
\* BITS binary digits
RECURSIVE decode(_)
decode(t) ==
    IF t.tag = "Term" THEN Zero
    ELSE << IF t.bit THEN 1 ELSE 0 >> \o SubSeq(decode(t.high), 1, BITS - 1)

\* the number of Lsb nodes of a bit-list
RECURSIVE NumLsb(_)
NumLsb(t) == IF t.tag = "Term" THEN 0 ELSE 1 + NumLsb(t.high)

\* ceil(log2(x + 1)): the number of binary digits of x
BitLength(x) ==
    IF \A i \in 1..BITS : x[i] = 0 THEN 0
    ELSE CHOOSE n \in 1..BITS : x[n] = 1 /\ \A i \in (n + 1)..BITS : x[i] = 0

\* the Lsb node next to Term, if there is one, carries bit = true
RECURSIVE TopBitSet(_)
TopBitSet(t) ==
    IF t.tag = "Term" THEN TRUE
    ELSE IF t.high.tag = "Term" THEN t.bit
    ELSE TopBitSet(t.high)

Name(id) == [kind |-> "Ident", text |-> id, spacing |-> "None"]

ColonColon ==
    << [kind |-> "Punct", text |-> << ":" >>, spacing |-> "Joint"],
       [kind |-> "Punct", text |-> << ":" >>, spacing |-> "Alone"] >>

Sym(ch) == [kind |-> "Punct", text |-> << ch >>, spacing |-> "Alone"]

\* emit(Term, ns) = ns :: UTerm
\* emit(Lsb(higher, bit), ns) = ns :: UInt < emit(higher, ns) , ns :: (bit ? B1 : B0) >
RECURSIVE emit(_, _)
emit(t, ns) ==
    IF t.tag = "Term"
    THEN ns \o ColonColon \o << Name(<< "U", "T", "e", "r", "m" >>) >>
    ELSE (ns \o ColonColon \o << Name(<< "U", "I", "n", "t" >>), Sym("<") >>)
         \o emit(t.high, ns)
         \o (<< Sym(",") >> \o ns \o ColonColon
             \o << Name(IF t.bit THEN << "B", "1" >> ELSE << "B", "0" >>), Sym(">") >>)

\* the places of a token stream where the path ns stands, followed by ::
QualificationPoints(ts, ns) ==
    { i \in 1..Len(ts) :
        /\ i + Len(ns) + 1 <= Len(ts)
        /\ SubSeq(ts, i, i + Len(ns) - 1) = ns
        /\ SubSeq(ts, i + Len(ns), i + Len(ns) + 1) = ColonColon }

IsStructural(tt) ==
    \/ tt \in { Sym("<"), Sym(","), Sym(">") }
    \/ tt \in { Name(<< "U", "I", "n", "t" >>), Name(<< "U", "T", "e", "r", "m" >>),
                Name(<< "B", "0" >>), Name(<< "B", "1" >>) }

\* the names of the numeric types and the punctuation of an expression
Structure(ts) == SelectSeq(ts, IsStructural)

HasBar(a) == \E i \in 1..Len(a) : a[i].kind = "Punct" /\ a[i].text = << "|" >>

FirstBar(a) ==
    CHOOSE i \in 1..Len(a) :
        /\ a[i].kind = "Punct" /\ a[i].text = << "|" >>
        /\ \A j \in 1..(i - 1) : ~ (a[j].kind = "Punct" /\ a[j].text = << "|" >>)

\* the tokens before the first top-level |
ValueSegment(a) == IF HasBar(a) THEN SubSeq(a, 1, FirstBar(a) - 1) ELSE a

\* the tokens after the first top-level |
NamespaceSegment(a) ==
    IF HasBar(a) THEN SubSeq(a, FirstBar(a) + 1, Len(a)) ELSE << >>

\* the text of a value segment with its white space removed
Stripped(a) == SelectSeq(to_string(a, << " " >>), NotWhitespace)

ArgCountError == "v4 UUIDs take no arguments"

ParseError == "called Result::unwrap() on an Err value"

----------------------------------------------------------------------------
(* the statements *)

\* C1: round trip of the encoder: decode(encode(x)) = x for every value x
\* of the identifier's width.
C1_RoundTrip ==
    pure.pc = "done" =>
        /\ decode(pure.tx) = pure.x
        /\ decode(pure.ty) = pure.y

C1_Witness ==
    /\ pure.pc = "done"
    /\ pure.x = SampleId
    /\ pure.tx.tag = "Lsb"
    /\ pure.y = Ones

\* C2: write_ts produces exactly emit(b, ns); the path ns stands at exactly
\* 2k+1 qualification points for a bit-list with k Lsb nodes; and another
\* path changes nothing but those points: the names and the punctuation of
\* the output are the same for every path.
C2_EmitShape ==
    pure.pc = "done" =>
        /\ pure.ox = emit(pure.tx, pure.ns)
        /\ Cardinality(QualificationPoints(pure.ox, pure.ns)) = 2 * NumLsb(pure.tx) + 1
        /\ Len(pure.ox) = (2 * NumLsb(pure.tx) + 1) * (Len(pure.ns) + 3) + 3 * NumLsb(pure.tx)
        /\ \A ns2 \in NsPaths \cup { CrateFakePrefix } :
              /\ Structure(write_ts(pure.tx, ns2, << >>)) = Structure(pure.ox)
              /\ write_ts(pure.tx, ns2, << >>) = emit(pure.tx, ns2)

C2_Witness ==
    /\ pure.pc = "done"
    /\ pure.ns = FakePrefix
    /\ NumLsb(pure.tx) = BITS
    /\ Cardinality(QualificationPoints(pure.ox, FakePrefix)) = 2 * BITS + 1

\* C3: split_off_prefix returns as value segment the tokens before the
\* first top-level |, and as namespace the tokens after it, or ::typenum
\* when there are none; the namespace it returns is never empty.
C3_Split ==
    macro # "none" =>
        /\ res.local = ValueSegment(args)
        /\ res.prefix = IF NamespaceSegment(args) = << >>
                        THEN DefaultPrefix
                        ELSE NamespaceSegment(args)
        /\ res.prefix # << >>

C3_Witness ==
    /\ macro # "none"
    /\ Cardinality({ i \in 1..Len(args) : IsBar(args[i]) }) >= 2
    /\ HasBar(res.prefix)

\* C4: uuid_new_v4 with a non-empty value segment fails with the
\* argument-count error and emits nothing, whatever the namespace segment;
\* with an empty value segment it succeeds and emits an expression.
C4_FreshArgCount ==
    macro = "uuid_new_v4" =>
        IF ValueSegment(args) # << >>
        THEN res.outcome = ArgCountError /\ res.out = << >>
        ELSE res.outcome = "ok" /\ res.out # << >>

C4_Witness ==
    /\ macro = "uuid_new_v4"
    /\ ValueSegment(args) # << >>
    /\ NamespaceSegment(args) # << >>
    /\ res.outcome = ArgCountError

\* C5: uuid on the simple, the hyphenated or the urn:uuid: form of an
\* identifier u, with white space anywhere in the value segment and any
\* spacing chosen by to_string, resolves to u and emits the expression of u
\* under the namespace of the invocation.
C5_LiteralForms ==
    (macro = "uuid" /\ denoted.wf) =>
        /\ res.outcome = "ok"
        /\ res.value = denoted.id
        /\ res.out = emit(from(denoted.id), res.prefix)

C5_Witness ==
    /\ macro = "uuid"
    /\ denoted.wf
    /\ denoted.form = "urn"
    /\ denoted.id = SampleId
    /\ Len(args) > Len(Lex(Render(SampleId, "urn"), 0))
    /\ res.outcome = "ok"

\* C6: uuid on a value segment that the parser refuses after white space
\* stripping ends in the parse error and emits no token.
C6_ParseError ==
    (macro = "uuid" /\ ~ parse_str(Stripped(ValueSegment(args))).ok) =>
        /\ res.outcome = ParseError
        /\ res.out = << >>

C6_Witness ==
    /\ macro = "uuid"
    /\ res.outcome = ParseError
    /\ Len(Stripped(ValueSegment(args))) = HyphenatedLen
    /\ NamespaceSegment(args) # << >>

\* C7: for one namespace path, distinct values have distinct bit-lists and
\* distinct emitted token streams.
C7_Injective ==
    (pure.pc = "done" /\ pure.x # pure.y) =>
        /\ pure.tx # pure.ty
        /\ pure.ox # pure.oy

C7_Witness ==
    /\ pure.pc = "done"
    /\ pure.x # pure.y
    /\ NumLsb(pure.tx) = NumLsb(pure.ty)
    /\ NumLsb(pure.tx) >= 2

\* C8: from(x) has as many Lsb nodes as x has binary digits (none for 0,
\* where it is Term), never more than the width, and the node next to Term
\* carries bit = true.
C8_Minimal ==
    pure.pc = "done" =>
        /\ NumLsb(pure.tx) = BitLength(pure.x)
        /\ NumLsb(pure.tx) <= BITS
        /\ (IsZero(pure.x) => pure.tx = Term)
        /\ TopBitSet(pure.tx)

C8_Witness ==
    /\ pure.pc = "done"
    /\ pure.x = OneBit(BITS - 1)
    /\ NumLsb(pure.tx) = BITS

C10_Draws ==
    /\ rng.draws = freshOk
    /\ res.drew <=> (macro = "uuid_new_v4" /\ res.outcome = "ok")
    /\ (macro = "uuid_new_v4" /\ res.outcome = "ok") => res.value = rng.last

C10_Witness ==
    /\ calls = MaxCalls
    /\ macro = "uuid_new_v4"
    /\ res.outcome = ArgCountError
    /\ rng.draws = MaxCalls - 1
====
